---- MODULE Spec2Model ----
(***************************************************************************)
(* Student Information Portal: the JSON-backed record store and its three  *)
(* copies of the load / find / append logic (Flask app, console script,    *)
(* exception-handling demonstration).                                      *)
(*                                                                         *)
(* Text is a sequence of one-character strings.  A JSON object on disk is  *)
(* a sequence of <<key, value>> members; in memory a dict is a function    *)
(* from its keys to text.                                                  *)
(***************************************************************************)
EXTENDS Integers, Sequences, FiniteSets

\* store     content of the data file (DATA_FILE, students.json)
\* backup    content of <data file>.backup, written by read_student_file
\* canRead   open(DATA_FILE, 'r') is permitted (no PermissionError)
\* canWrite  open(DATA_FILE, 'w') and os.rename succeed
\* last      the last request or call: its input, its response or return
\*           value, and the file system it started from
\* prev      the lookup before the last operation (kept while the file is
\*           changed from outside)
\* procs     the add_student requests in progress: where each one is in
\*           the handler and its local variables
VARIABLES store, backup, canRead, canWrite, last, prev, procs

vars == <<store, backup, canRead, canWrite, last, prev, procs>>

\* Largest number of records the store is allowed to grow to.
MaxRecs == 2

\* Rounds of prompts the user is prepared to answer in one add_record() call.
MaxPrompts == 3

(***************************************************************************)
(* Text helpers: str.strip(), str.lower(), `c in s`, truthiness.           *)
(***************************************************************************)
RECURSIVE LStrip(_)
LStrip(s) == IF s # <<>> /\ Head(s) = " " THEN LStrip(Tail(s)) ELSE s

RECURSIVE RStrip(_)
RStrip(s) ==
    IF s # <<>> /\ s[Len(s)] = " " THEN RStrip(SubSeq(s, 1, Len(s) - 1)) ELSE s

Strip(s) == RStrip(LStrip(s))

LowerChar(c) == IF c = "A" THEN "a" ELSE IF c = "B" THEN "b" ELSE c

Lower(s) == [i \in DOMAIN s |-> LowerChar(s[i])]

Contains(s, c) == \E i \in DOMAIN s : s[i] = c

Truthy(s) == s # <<>>

(***************************************************************************)
(* Records and their JSON form.                                            *)
(***************************************************************************)
Fields == <<"name", "roll_no", "department", "email">>

FieldSet == {Fields[i] : i \in DOMAIN Fields}

\* The dict literal {'name': .., 'roll_no': .., 'department': .., 'email': ..}
NewStudent(name, roll_no, department, email) ==
    [name |-> name, roll_no |-> roll_no, department |-> department, email |-> email]

\* json.dump of one dict: its members in insertion order.
DumpObject(d) ==
    LET keys == SelectSeq(Fields, LAMBDA k : k \in DOMAIN d)
    IN  [i \in DOMAIN keys |-> <<keys[i], d[keys[i]]>>]

\* json.load of one object: a dict; a repeated key keeps its last value.
LoadObject(o) ==
    [k \in {o[i][1] : i \in DOMAIN o} |->
        LET last_i == CHOOSE i \in DOMAIN o :
                        /\ o[i][1] = k
                        /\ \A j \in DOMAIN o : o[j][1] = k => j <= i
        IN  o[last_i][2]]

\* Parsed JSON values: a list of dicts, an empty object {}, or a scalar.
PyList(items) == [kind |-> "list", items |-> items]
PyEmptyObj == [kind |-> "emptyobj", items |-> <<>>]
PyScalar == [kind |-> "scalar", items |-> <<>>]

\* File contents: no file, JSON text of one of the values above, or text
\* that is not JSON.
Absent == [kind |-> "absent", objs |-> <<>>]
Garbage == [kind |-> "garbage", objs |-> <<>>]

\* json.dump(data, file, indent=4)
JsonDump(data) ==
    [kind |-> data.kind, objs |-> [i \in DOMAIN data.items |-> DumpObject(data.items[i])]]

\* json.load(file) on parseable content
JsonLoad(content) ==
    [kind |-> content.kind, items |-> [i \in DOMAIN content.objs |-> LoadObject(content.objs[i])]]

EmptyFile == JsonDump(PyList(<<>>))

(***************************************************************************)
(* The file system seen by the program.                                    *)
(***************************************************************************)
FS(s, b, r, w) == [store |-> s, backup |-> b, canRead |-> r, canWrite |-> w]

\* open(DATA_FILE, 'r') followed by json.load: the exception raised, if any.
OpenReadExc(fs) ==
    IF fs.store.kind = "absent" THEN "FileNotFoundError"
    ELSE IF ~fs.canRead THEN "PermissionError"
    ELSE IF fs.store.kind = "garbage" THEN "JSONDecodeError"
    ELSE "none"

\* with open(DATA_FILE, 'w') as file: json.dump(data, file, indent=4)
\* A file the program creates is readable by it.
WriteFile(fs, data) ==
    IF fs.canWrite
    THEN [exc |-> "none",
          fs |-> [fs EXCEPT !.store = JsonDump(data),
                            !.canRead = IF fs.store.kind = "absent" THEN TRUE ELSE @]]
    ELSE [exc |-> "OSError", fs |-> fs]

(***************************************************************************)
(* Flask application (app.py).                                             *)
(***************************************************************************)
\* A variant of initialize_data_file that never creates the file.
initialize_data_file_skip(fs) == fs

\* initialize_data_file(): create the file holding [] when it is missing;
\* a failure to create it is printed and swallowed.
initialize_data_file(fs) ==
    IF fs.store.kind = "absent" THEN WriteFile(fs, PyList(<<>>)).fs ELSE fs

\* A variant of read_students that keeps the content read for an earlier
\* lookup in a module-level cache and answers from it.
read_students_cached(fs) ==
    LET seen == IF last.op \in {"search_student", "search_by_roll_number"}
                THEN last.pre.store
                ELSE IF prev.op \in {"search_student", "search_by_roll_number"}
                THEN prev.pre.store
                ELSE fs.store
        exc == OpenReadExc([fs EXCEPT !.store = seen])
    IN  CASE exc = "none" ->
               [exc |-> "none", ret |-> JsonLoad(seen), fs |-> fs]
          [] exc = "FileNotFoundError" ->
               [exc |-> "none", ret |-> PyList(<<>>), fs |-> initialize_data_file(fs)]
          [] exc = "JSONDecodeError" ->
               [exc |-> "none", ret |-> PyList(<<>>), fs |-> fs]
          [] OTHER ->
               [exc |-> exc, ret |-> PyList(<<>>), fs |-> fs]

\* read_students(): the value returned or the exception raised, and the file
\* system afterwards.
read_students(fs) ==
    LET exc == OpenReadExc(fs)
    IN  CASE exc = "none" ->
               [exc |-> "none", ret |-> JsonLoad(fs.store), fs |-> fs]
          [] exc = "FileNotFoundError" ->
               [exc |-> "none", ret |-> PyList(<<>>), fs |-> initialize_data_file(fs)]
          [] exc = "JSONDecodeError" ->
               [exc |-> "none", ret |-> PyList(<<>>), fs |-> fs]
          [] OTHER ->
               [exc |-> exc, ret |-> PyList(<<>>), fs |-> fs]

\* A variant of write_students that adds the new record to whatever the file
\* holds now instead of rewriting the file from the list in memory.
write_students_merge(fs, students) ==
    WriteFile(fs, PyList(
        (IF fs.store.kind = "list" THEN JsonLoad(fs.store).items ELSE <<>>)
            \o <<students.items[Len(students.items)]>>))

\* A variant of write_students that prints the failure and does not re-raise.
write_students_swallow(fs, students) ==
    [exc |-> "none", fs |-> WriteFile(fs, students).fs]

\* write_students(students): prints and re-raises on failure.
write_students(fs, students) == WriteFile(fs, students)

\* A variant of the scan that compares without lower().
RECURSIVE ScanLower_cased(_, _, _)
ScanLower_cased(items, i, roll_no) ==
    IF i > Len(items) THEN [exc |-> "none", hit |-> <<>>]
    ELSE IF "roll_no" \notin DOMAIN items[i] THEN [exc |-> "KeyError", hit |-> <<>>]
    ELSE IF items[i]["roll_no"] = roll_no
         THEN [exc |-> "none", hit |-> <<items[i]>>]
    ELSE ScanLower_cased(items, i + 1, roll_no)

\* for student in students: if student['roll_no'].lower() == roll_no.lower()
\* scanned from position i; hit is <<>> (no match) or <<student>>.
RECURSIVE ScanLower(_, _, _)
ScanLower(items, i, roll_no) ==
    IF i > Len(items) THEN [exc |-> "none", hit |-> <<>>]
    ELSE IF "roll_no" \notin DOMAIN items[i] THEN [exc |-> "KeyError", hit |-> <<>>]
    ELSE IF Lower(items[i]["roll_no"]) = Lower(roll_no)
         THEN [exc |-> "none", hit |-> <<items[i]>>]
    ELSE ScanLower(items, i + 1, roll_no)

\* Iterating a parsed value that need not be a list: a scalar is not
\* iterable, an empty object yields nothing.
IterLower(data, roll_no) ==
    CASE data.kind = "list" -> ScanLower(data.items, 1, roll_no)
      [] data.kind = "emptyobj" -> [exc |-> "none", hit |-> <<>>]
      [] OTHER -> [exc |-> "TypeError", hit |-> <<>>]

\* A variant of find_student_by_roll_no that reads the file and matches
\* nothing.
find_student_by_roll_no_blind(fs, roll_no) ==
    LET r == read_students(fs)
    IN  [exc |-> r.exc, hit |-> <<>>, fs |-> r.fs]

\* find_student_by_roll_no(roll_no)
find_student_by_roll_no(fs, roll_no) ==
    LET r == read_students(fs)
    IN  IF r.exc # "none" THEN [exc |-> r.exc, hit |-> <<>>, fs |-> r.fs]
        ELSE LET s == IterLower(r.ret, roll_no)
             IN  [exc |-> s.exc, hit |-> s.hit, fs |-> r.fs]

\* A variant of append that inserts at the front.
PyAppend_front(data, new_student) ==
    IF data.kind = "list"
    THEN [exc |-> "none", ret |-> PyList(<<new_student>> \o data.items)]
    ELSE [exc |-> "AttributeError", ret |-> data]

\* students.append(new_student): only a list has append.
PyAppend(data, new_student) ==
    IF data.kind = "list"
    THEN [exc |-> "none", ret |-> PyList(Append(data.items, new_student))]
    ELSE [exc |-> "AttributeError", ret |-> data]

\* The try block of add_student: read, append, write.
add_student_save(fs, new_student) ==
    LET r == read_students(fs)
    IN  IF r.exc # "none" THEN [exc |-> r.exc, fs |-> r.fs]
        ELSE LET a == PyAppend(r.ret, new_student)
             IN  IF a.exc # "none" THEN [exc |-> a.exc, fs |-> r.fs]
                 ELSE write_students(r.fs, a.ret)

\* POST /add with the four form values: the response and the file system.
add_student(fs, form) ==
    LET name == Strip(form.name)
        roll_no == Strip(form.roll_no)
        department == Strip(form.department)
        email == Strip(form.email)
        new_student == NewStudent(name, roll_no, department, email)
    IN  IF ~(Truthy(name) /\ Truthy(roll_no) /\ Truthy(department) /\ Truthy(email))
        THEN [outcome |-> "missing_field", fs |-> fs]
        ELSE IF ~Contains(email, "@") \/ ~Contains(email, ".")
        THEN [outcome |-> "invalid_email", fs |-> fs]
        ELSE LET f == find_student_by_roll_no(fs, roll_no)
             IN  IF f.exc # "none"
                 THEN [outcome |-> "fault", fs |-> f.fs]
                 ELSE IF f.hit # <<>>
                 THEN [outcome |-> "duplicate", fs |-> f.fs]
                 ELSE LET w == add_student_save(f.fs, new_student)
                      IN  [outcome |-> IF w.exc = "none" THEN "success" ELSE "error",
                           fs |-> w.fs]

\* GET /students: the list rendered; a failing read is flashed and an empty
\* list rendered.
view_students(fs) ==
    LET r == read_students(fs)
    IN  IF r.exc = "none" THEN [outcome |-> "ok", ret |-> r.ret, fs |-> r.fs]
        ELSE [outcome |-> "error", ret |-> PyList(<<>>), fs |-> r.fs]

\* POST /search
search_student(fs, input) ==
    LET roll_no == Strip(input)
    IN  IF ~Truthy(roll_no) THEN [outcome |-> "missing_field", hit |-> <<>>, fs |-> fs]
        ELSE LET f == find_student_by_roll_no(fs, roll_no)
             IN  IF f.exc # "none" THEN [outcome |-> "fault", hit |-> <<>>, fs |-> f.fs]
                 ELSE IF f.hit # <<>> THEN [outcome |-> "found", hit |-> f.hit, fs |-> f.fs]
                 ELSE [outcome |-> "not_found", hit |-> <<>>, fs |-> f.fs]

(***************************************************************************)
(* Console script (data_handler.py).                                       *)
(***************************************************************************)
\* for student in students: if student['roll_no'] == roll_no
RECURSIVE ScanExact(_, _, _)
ScanExact(items, i, roll_no) ==
    IF i > Len(items) THEN [exc |-> "none", hit |-> <<>>]
    ELSE IF "roll_no" \notin DOMAIN items[i] THEN [exc |-> "KeyError", hit |-> <<>>]
    ELSE IF items[i]["roll_no"] = roll_no
         THEN [exc |-> "none", hit |-> <<items[i]>>]
    ELSE ScanExact(items, i + 1, roll_no)

IterExact(data, roll_no) ==
    CASE data.kind = "list" -> ScanExact(data.items, 1, roll_no)
      [] data.kind = "emptyobj" -> [exc |-> "none", hit |-> <<>>]
      [] OTHER -> [exc |-> "TypeError", hit |-> <<>>]

\* initialize_file(): creates the file when missing; a failure is raised.
initialize_file(fs) ==
    IF fs.store.kind = "absent" THEN WriteFile(fs, PyList(<<>>))
    ELSE [exc |-> "none", fs |-> fs]

\* The try block of add_record for one set of typed answers: the outcome,
\* or the exception that reaches the except clauses.
add_record_try(fs, input) ==
    LET name == Strip(input.name)
        roll_no == Strip(input.roll_no)
        department == Strip(input.department)
        email == Strip(input.email)
        new_student == NewStudent(name, roll_no, department, email)
        exc == OpenReadExc(fs)
        students == JsonLoad(fs.store)
        dup == IterExact(students, roll_no)
        app == PyAppend(students, new_student)
        w == WriteFile(fs, app.ret)
        Res(o, e, f) == [outcome |-> o, exc |-> e, fs |-> f, input |-> input]
    IN  IF ~(Truthy(name) /\ Truthy(roll_no) /\ Truthy(department) /\ Truthy(email))
        THEN Res("missing_field", "none", fs)
        ELSE IF ~Contains(email, "@") THEN Res("invalid_email", "none", fs)
        ELSE IF exc # "none" THEN Res("raised", exc, fs)
        ELSE IF dup.exc # "none" THEN Res("raised", dup.exc, fs)
        ELSE IF dup.hit # <<>> THEN Res("duplicate", "none", fs)
        ELSE IF app.exc # "none" THEN Res("raised", app.exc, fs)
        ELSE IF w.exc # "none" THEN Res("raised", w.exc, fs)
        ELSE Res("success", "none", w.fs)

\* add_record(): inputs are the answers typed at each round of prompts; a
\* missing file is initialized and add_record() calls itself.
RECURSIVE add_record(_, _)
add_record(fs, inputs) ==
    IF inputs = <<>> THEN [outcome |-> "waiting", fs |-> fs,
                           input |-> NewStudent(<<>>, <<>>, <<>>, <<>>), depth |-> 0]
    ELSE LET t == add_record_try(fs, Head(inputs))
             init == initialize_file(t.fs)
             again == add_record(init.fs, Tail(inputs))
         IN  IF t.outcome # "raised"
             THEN [outcome |-> t.outcome, fs |-> t.fs, input |-> t.input, depth |-> 0]
             ELSE IF t.exc = "FileNotFoundError"
             THEN IF init.exc # "none"
                  THEN [outcome |-> "fault", fs |-> init.fs, input |-> t.input, depth |-> 0]
                  ELSE [again EXCEPT !.depth = @ + 1]
             ELSE IF t.exc = "JSONDecodeError"
             THEN [outcome |-> "json_error", fs |-> t.fs, input |-> t.input, depth |-> 0]
             ELSE [outcome |-> "error", fs |-> t.fs, input |-> t.input, depth |-> 0]

\* search_by_roll_number()
search_by_roll_number(fs, input) ==
    LET roll_no == Strip(input)
        exc == OpenReadExc(fs)
        init == initialize_file(fs)
        s == IterLower(JsonLoad(fs.store), roll_no)
    IN  IF ~Truthy(roll_no) THEN [outcome |-> "missing_field", hit |-> <<>>, fs |-> fs]
        ELSE IF exc = "FileNotFoundError"
        THEN [outcome |-> IF init.exc = "none" THEN "file_not_found" ELSE "fault",
              hit |-> <<>>, fs |-> init.fs]
        ELSE IF exc = "JSONDecodeError"
        THEN [outcome |-> "json_error", hit |-> <<>>, fs |-> fs]
        ELSE IF exc # "none" THEN [outcome |-> "error", hit |-> <<>>, fs |-> fs]
        ELSE IF s.exc # "none" THEN [outcome |-> "error", hit |-> <<>>, fs |-> fs]
        ELSE IF s.hit # <<>> THEN [outcome |-> "found", hit |-> s.hit, fs |-> fs]
        ELSE [outcome |-> "not_found", hit |-> <<>>, fs |-> fs]

(***************************************************************************)
(* Exception-handling demonstration (exception_handling.py).               *)
(***************************************************************************)
\* Every record of the list has the four required fields.
AllFieldsPresent(items) ==
    \A i \in DOMAIN items : \A k \in FieldSet : k \in DOMAIN items[i]

\* os.rename(filename, backup_name), then a new file holding []; either
\* step failing is printed and swallowed.
backup_and_reset(fs) ==
    IF fs.canWrite
    THEN WriteFile([fs EXCEPT !.backup = fs.store, !.store = Absent], PyList(<<>>)).fs
    ELSE fs

\* read_student_file(filename): the list returned, the condition reported
\* and the file system afterwards.
read_student_file(fs) ==
    LET exc == OpenReadExc(fs)
        data == JsonLoad(fs.store)
        Res(c, r, f) == [cond |-> c, ret |-> r, fs |-> f]
    IN  CASE exc = "FileNotFoundError" ->
               Res("file_not_found", PyList(<<>>), WriteFile(fs, PyList(<<>>)).fs)
          [] exc = "JSONDecodeError" ->
               Res("json_error", PyList(<<>>), backup_and_reset(fs))
          [] exc = "PermissionError" ->
               Res("permission_denied", PyList(<<>>), fs)
          [] OTHER ->
               IF data.kind # "list" \/ ~AllFieldsPresent(data.items)
               THEN Res("value_error", PyList(<<>>), fs)
               ELSE Res("ok", data, fs)

\* safe_add_student(filename, name, roll_no, department, email): ok is the
\* boolean returned.
safe_add_student(fs, args) ==
    LET new_student == NewStudent(args.name, args.roll_no, args.department, args.email)
        r == read_student_file(fs)
        dup == ScanExact(r.ret.items, 1, args.roll_no)
        w == WriteFile(r.fs, PyList(Append(r.ret.items, new_student)))
        Res(o, f) == [outcome |-> o, ok |-> o = "success", fs |-> f]
    IN  IF ~(Truthy(args.name) /\ Truthy(args.roll_no)
             /\ Truthy(args.department) /\ Truthy(args.email))
        THEN Res("missing_field", fs)
        ELSE IF ~Contains(args.email, "@") THEN Res("invalid_email", fs)
        ELSE IF dup.hit # <<>> THEN Res("duplicate", r.fs)
        ELSE IF w.exc # "none" THEN Res("error", w.fs)
        ELSE Res("success", w.fs)

(***************************************************************************)
(* The state machine: one action per request, menu command or call.        *)
(***************************************************************************)
Text(n, r, d, e) == NewStudent(n, r, d, e)

\* What a user may type or a caller may pass for a new student.
Candidates ==
    { Text(<<"n">>, <<"a">>, <<"d">>, <<"x", "@", ".">>),
      Text(<<"n">>, <<"A">>, <<"d">>, <<"x", "@", ".">>),
      Text(<<"n">>, <<"b">>, <<"d">>, <<"x", "@", ".">>),
      Text(<<"n">>, <<" ", "a">>, <<"d">>, <<"x", "@", ".">>),
      Text(<<" ">>, <<"a">>, <<"d">>, <<"x", "@", ".">>),
      Text(<<"n">>, <<"a">>, <<>>, <<"x", "@", ".">>),
      Text(<<"n">>, <<"a">>, <<"d">>, <<"x", "@">>),
      Text(<<"n">>, <<"a">>, <<"d">>, <<"x", ".">>),
      Text(<<"n">>, <<"a">>, <<>>, <<"x", ".">>) }

\* What the user may type when add_record() prompts a second time.
Retyped ==
    { Text(<<"n">>, <<"b">>, <<"d">>, <<"x", "@", ".">>),
      Text(<<"n">>, <<"a">>, <<"d">>, <<"x", "@">>),
      Text(<<"n">>, <<"a">>, <<>>, <<"x", "@", ".">>) }

\* What a user may type as the roll number to look up.
Queries == { <<"a">>, <<"A">>, <<"b">>, <<" ", "A">>, <<" ">> }

\* Contents the data file may have when the program first touches it, or
\* after somebody else has rewritten it.
ForeignStores ==
    { Absent, Garbage, EmptyFile, JsonDump(PyEmptyObj), JsonDump(PyScalar),
      JsonDump(PyList(<<Text(<<"n">>, <<"a">>, <<"d">>, <<"x", "@", ".">>)>>)),
      JsonDump(PyList(<<[name |-> <<"n">>, roll_no |-> <<"a">>, department |-> <<"d">>]>>)),
      JsonDump(PyList(<<[name |-> <<"n">>, department |-> <<"d">>,
                         email |-> <<"x", "@", ".">>]>>)) }

CurFS == FS(store, backup, canRead, canWrite)

SetFS(fs) ==
    /\ store' = fs.store
    /\ backup' = fs.backup
    /\ canRead' = fs.canRead
    /\ canWrite' = fs.canWrite

NoCand == Text(<<>>, <<>>, <<>>, <<>>)

\* The last operation: what was asked, what came back, and the file system
\* it started from.
Done(op, cand, q, outcome, ret, hit) ==
    [op |-> op, cand |-> cand, q |-> q, outcome |-> outcome, ret |-> ret,
     hit |-> hit, pre |-> CurFS]

Idle == [op |-> "none", cand |-> NoCand, q |-> <<>>, outcome |-> "none",
         ret |-> PyList(<<>>), hit |-> <<>>, pre |-> FS(Absent, Absent, TRUE, TRUE)]

Fits(fs) == Len(fs.store.objs) <= MaxRecs

\* The add_student requests: two browsers posting the form.
Reqs == {1, 2}

NoProc == [pc |-> "idle", form |-> NoCand, seen |-> <<>>, students |-> <<>>,
           outcome |-> "none"]

NoProcs == [p \in Reqs |-> NoProc]

Init ==
    /\ store \in ForeignStores
    /\ backup = Absent
    /\ canWrite \in BOOLEAN
    /\ canRead \in (IF store = Absent THEN {TRUE} ELSE BOOLEAN)
    /\ last = Idle
    /\ prev = Idle
    /\ procs = NoProcs

AddStudent ==
    \E c \in Candidates :
        LET r == add_student(CurFS, c)
        IN  /\ Fits(r.fs)
            /\ SetFS(r.fs)
            /\ UNCHANGED <<prev, procs>>
            /\ last' = Done("add_student", c, <<>>, r.outcome, PyList(<<>>), <<>>)

ViewStudents ==
    LET r == view_students(CurFS)
    IN  /\ SetFS(r.fs)
        /\ UNCHANGED <<prev, procs>>
        /\ last' = Done("view_students", NoCand, <<>>, r.outcome, r.ret, <<>>)

SearchStudent ==
    \E q \in Queries :
        LET r == search_student(CurFS, q)
        IN  /\ SetFS(r.fs)
            /\ UNCHANGED <<prev, procs>>
            /\ last' = Done("search_student", NoCand, q, r.outcome, PyList(<<>>), r.hit)

AddRecord ==
    \E c1 \in Candidates, c2 \in Retyped :
        LET r == add_record(CurFS, <<c1, c2>>)
        IN  /\ Fits(r.fs)
            /\ SetFS(r.fs)
            /\ UNCHANGED <<prev, procs>>
            /\ last' = Done("add_record", r.input, <<>>, r.outcome, PyList(<<>>), <<>>)

SearchByRollNumber ==
    \E q \in Queries :
        LET r == search_by_roll_number(CurFS, q)
        IN  /\ SetFS(r.fs)
            /\ UNCHANGED <<prev, procs>>
            /\ last' = Done("search_by_roll_number", NoCand, q, r.outcome,
                            PyList(<<>>), r.hit)

ReadStudentFile ==
    LET r == read_student_file(CurFS)
    IN  /\ SetFS(r.fs)
        /\ UNCHANGED <<prev, procs>>
        /\ last' = Done("read_student_file", NoCand, <<>>, r.cond, r.ret, <<>>)

SafeAddStudent ==
    \E c \in Candidates :
        LET r == safe_add_student(CurFS, c)
        IN  /\ Fits(r.fs)
            /\ SetFS(r.fs)
            /\ UNCHANGED <<prev, procs>>
            /\ last' = Done("safe_add_student", c, <<>>, r.outcome, PyList(<<>>), <<>>)

\* The environment changes the access rights of the data file or of the
\* directory holding it.
EnvChmod ==
    /\ canRead' \in (IF store = Absent THEN {TRUE} ELSE BOOLEAN)
    /\ canWrite' \in BOOLEAN
    /\ <<canRead', canWrite'>> # <<canRead, canWrite>>
    /\ UNCHANGED <<prev, procs>>
    /\ last' = Idle
    /\ UNCHANGED <<store, backup>>

\* Somebody else replaces or removes the data file.
EnvModify ==
    /\ store' \in ForeignStores \ {store}
    /\ canRead' = (IF store' = Absent THEN TRUE ELSE canRead)
    /\ UNCHANGED <<prev, procs>>
    /\ last' = Idle
    /\ UNCHANGED <<backup, canWrite>>

Next ==
    \/ AddStudent
    \/ ViewStudents
    \/ SearchStudent
    \/ AddRecord
    \/ SearchByRollNumber
    \/ ReadStudentFile
    \/ SafeAddStudent
    \/ EnvChmod
    \/ EnvModify

Spec == Init /\ [][Next]_vars

(***************************************************************************)
(* Lookups while the data file is changed from outside: the search page is *)
(* used again and again, and between two requests somebody else may add a  *)
(* record to the file, replace it or remove it.                            *)
(***************************************************************************)
\* The lookup that came before the operation now starting.
Earlier == IF last.op \in {"search_student", "search_by_roll_number"} THEN last ELSE prev

InitLookup ==
    /\ store \in ForeignStores
    /\ backup = Absent
    /\ canWrite = TRUE
    /\ canRead \in (IF store = Absent THEN {TRUE} ELSE BOOLEAN)
    /\ last = Idle
    /\ prev = Idle
    /\ procs = NoProcs

LookupSearch ==
    \E q \in Queries :
        LET r == search_student(CurFS, q)
        IN  /\ SetFS(r.fs)
            /\ prev' = Earlier
            /\ last' = Done("search_student", NoCand, q, r.outcome, PyList(<<>>), r.hit)
            /\ UNCHANGED procs

LookupExternalChange ==
    /\ store' \in ForeignStores \ {store}
    /\ canRead' = (IF store' = Absent THEN TRUE ELSE canRead)
    /\ prev' = Earlier
    /\ last' = Idle
    /\ UNCHANGED <<backup, canWrite, procs>>

NextLookup ==
    \/ LookupSearch
    \/ LookupExternalChange

SpecLookup == InitLookup /\ [][NextLookup]_vars

(***************************************************************************)
(* Two add_student requests served at the same time (threads or workers    *)
(* of the web server): each request runs the handler's statements in       *)
(* order, and the statements of the two requests interleave at the file    *)
(* operations.                                                             *)
(***************************************************************************)
\* What the two browsers may post.
RaceForms ==
    { Text(<<"n">>, <<"a">>, <<"d">>, <<"x", "@", ".">>),
      Text(<<"n">>, <<"A">>, <<"d">>, <<"x", "@", ".">>),
      Text(<<"n">>, <<"b">>, <<"d">>, <<"x", "@", ".">>),
      Text(<<"n">>, <<"a">>, <<"d">>, <<"x", ".">>) }

\* The stripped form values, as add_student holds them.
Stripped(form) ==
    NewStudent(Strip(form.name), Strip(form.roll_no), Strip(form.department),
               Strip(form.email))

\* The two validation tests of add_student.
add_student_validate(form) ==
    LET f == Stripped(form)
    IN  IF ~(Truthy(f.name) /\ Truthy(f.roll_no) /\ Truthy(f.department)
             /\ Truthy(f.email))
        THEN "missing_field"
        ELSE IF ~Contains(f.email, "@") \/ ~Contains(f.email, ".")
        THEN "invalid_email"
        ELSE "ok"

InitRace ==
    /\ store \in {Absent, EmptyFile}
    /\ backup = Absent
    /\ canRead = TRUE
    /\ canWrite \in BOOLEAN
    /\ last = Idle
    /\ prev = Idle
    /\ procs = NoProcs

\* The request arrives and its form is validated.
RacePost(p) ==
    /\ procs[p].pc = "idle"
    /\ \E form \in RaceForms :
          LET v == add_student_validate(form)
          IN  procs' = [procs EXCEPT ![p] =
                  [@ EXCEPT !.form = form,
                            !.pc = IF v = "ok" THEN "check" ELSE "done",
                            !.outcome = IF v = "ok" THEN "none" ELSE v]]
    /\ UNCHANGED <<store, backup, canRead, canWrite, last, prev>>

\* if find_student_by_roll_no(roll_no): ...
RaceCheck(p) ==
    /\ procs[p].pc = "check"
    /\ LET r == read_students(CurFS)
           f == find_student_by_roll_no(CurFS, Stripped(procs[p].form).roll_no)
       IN  /\ SetFS(f.fs)
           /\ procs' = [procs EXCEPT ![p] =
                  [@ EXCEPT !.seen = IF r.exc = "none" /\ r.ret.kind = "list"
                                     THEN r.ret.items ELSE <<>>,
                            !.pc = IF f.exc = "none" /\ f.hit = <<>>
                                   THEN "read" ELSE "done",
                            !.outcome = IF f.exc # "none" THEN "fault"
                                        ELSE IF f.hit # <<>> THEN "duplicate"
                                        ELSE "none"]]
    /\ UNCHANGED <<last, prev>>

\* students = read_students(); students.append(new_student)
RaceRead(p) ==
    /\ procs[p].pc = "read"
    /\ LET r == read_students(CurFS)
           a == PyAppend(r.ret, Stripped(procs[p].form))
           ok == r.exc = "none" /\ a.exc = "none"
       IN  /\ SetFS(r.fs)
           /\ procs' = [procs EXCEPT ![p] =
                  [@ EXCEPT !.students = IF ok THEN a.ret.items ELSE <<>>,
                            !.pc = IF ok THEN "write" ELSE "done",
                            !.outcome = IF ok THEN "none" ELSE "error"]]
    /\ UNCHANGED <<last, prev>>

\* write_students(students), then the success flash, or the error flash of
\* the except clause.
RaceWrite(p) ==
    /\ procs[p].pc = "write"
    /\ LET w == write_students(CurFS, PyList(procs[p].students))
       IN  /\ SetFS(w.fs)
           /\ procs' = [procs EXCEPT ![p] =
                  [@ EXCEPT !.pc = "done",
                            !.outcome = IF w.exc = "none" THEN "success" ELSE "error"]]
    /\ UNCHANGED <<last, prev>>

NextRace ==
    \E p \in Reqs :
        \/ RacePost(p)
        \/ RaceCheck(p)
        \/ RaceRead(p)
        \/ RaceWrite(p)

SpecRace == InitRace /\ [][NextRace]_vars

(***************************************************************************)
(* Vocabulary of the properties.                                           *)
(***************************************************************************)
AppendOps == {"add_student", "add_record", "safe_add_student"}
LoadOps == {"view_students", "read_student_file"}
FindOps == {"search_student", "search_by_roll_number"}

IsAppend == last.op \in AppendOps
IsLoad == last.op \in LoadOps
IsFind == last.op \in FindOps

\* The dicts a content holds (none unless it is a list).
Items(content) == IF content.kind = "list" THEN JsonLoad(content).items ELSE <<>>

Trimmed(s) == Strip(s) = s

EmailOk(e) == Contains(e, "@") /\ Contains(e, ".")

\* A Record of the data model.
ValidRecord(d) ==
    /\ DOMAIN d = FieldSet
    /\ \A k \in FieldSet : Strip(d[k]) # <<>>
    /\ EmailOk(d["email"])

SameRoll(x, y) == Lower(x) = Lower(y)

UniqueCI(items) ==
    \A i, j \in DOMAIN items :
        (i # j /\ "roll_no" \in DOMAIN items[i] /\ "roll_no" \in DOMAIN items[j])
            => ~SameRoll(items[i]["roll_no"], items[j]["roll_no"])

\* A store that is absent or holds a valid collection.
ValidStore(content) ==
    /\ content.kind \in {"absent", "list"}
    /\ \A i \in DOMAIN Items(content) : ValidRecord(Items(content)[i])
    /\ UniqueCI(Items(content))

\* A candidate that violates a validation rule of the data model.
InvalidCand(c) ==
    \/ \E k \in FieldSet : Strip(c[k]) = <<>>
    \/ ~EmailOk(c["email"])

\* A valid candidate as the presentation layers hand it over: trimmed.
ValidCand(c) == ~InvalidCand(c) /\ \A k \in FieldSet : Trimmed(c[k])

Collides(c, items) ==
    \E i \in DOMAIN items : SameRoll(items[i]["roll_no"], c["roll_no"])

\* The file system lets the program read and write the data file.
Accessible(fs) == fs.canRead /\ fs.canWrite

IsPrefix(s, t) == Len(s) <= Len(t) /\ SubSeq(t, 1, Len(s)) = s

(***************************************************************************)
(* C1  Uniqueness: after an append on an absent or valid store no two      *)
(* persisted records have roll numbers equal up to letter case, and an     *)
(* append whose roll number differs from a persisted one only in case is   *)
(* rejected as a duplicate and leaves the store unchanged.                 *)
(***************************************************************************)
C1_Uniqueness ==
    (IsAppend /\ ValidStore(last.pre.store) /\ Accessible(last.pre))
        => /\ UniqueCI(Items(store))
           /\ (~InvalidCand(last.cand) /\ Collides(last.cand, Items(last.pre.store)))
                 => (last.outcome = "duplicate" /\ store = last.pre.store)

(***************************************************************************)
(* C2  Validation precedes I/O: an append with a candidate that has a      *)
(* field empty after trimming, or an email without '@' or without '.',     *)
(* leaves the content of the store as it was.                              *)
(***************************************************************************)
C2_ValidationPrecedesIO ==
    (IsAppend /\ InvalidCand(last.cand)) => store = last.pre.store

(***************************************************************************)
(* C3  Round trip: after a successful append of a valid candidate r that   *)
(* collides with nothing in the valid prior collection P of an accessible  *)
(* store, every copy of load returns P followed by r, and looking r's roll *)
(* number up returns r.                                                    *)
(***************************************************************************)
C3_Case ==
    /\ IsAppend
    /\ last.outcome = "success"
    /\ ValidStore(last.pre.store)
    /\ last.pre.canRead
    /\ ValidCand(last.cand)
    /\ ~Collides(last.cand, Items(last.pre.store))

C4_WriteFailureNotSuccess ==
    (IsAppend /\ ~last.pre.canWrite)
        => (last.outcome # "success" /\ store = last.pre.store)

C4_Witness ==
    /\ last.op = "add_student"
    /\ ~last.pre.canWrite
    /\ last.pre.canRead
    /\ ValidStore(last.pre.store)
    /\ ValidCand(last.cand)
    /\ ~Collides(last.cand, Items(last.pre.store))
    /\ last.outcome = "error"

(***************************************************************************)
(* C5  Corruption recovery: load on a store whose content does not parse,  *)
(* or parses to something that is not a sequence, returns the empty        *)
(* collection, leaves a backup holding the original content and leaves the *)
(* live store holding the empty sequence.                                  *)
(***************************************************************************)
C5_CorruptionRecovery ==
    (IsLoad /\ last.pre.store.kind \in {"garbage", "emptyobj", "scalar"}
            /\ Accessible(last.pre))
        => /\ last.ret = PyList(<<>>)
           /\ backup = last.pre.store
           /\ store = EmptyFile

(***************************************************************************)
(* C6  A persisted record is never mutated or deleted: whatever the        *)
(* operation and its outcome, the records the store held before it are     *)
(* still there afterwards, unchanged and in place, and the store has grown *)
(* by at most one record at its end.                                       *)
(***************************************************************************)
C6_NeverMutatedOrDeleted ==
    (last.op \in AppendOps \cup LoadOps \cup FindOps
        /\ last.pre.store.kind = "list" /\ ValidStore(last.pre.store))
        => /\ store.kind = "list"
           /\ IsPrefix(last.pre.store.objs, store.objs)
           /\ Len(store.objs) <= Len(last.pre.store.objs) + 1

(***************************************************************************)
(* C7  Case-insensitive lookup: on a readable store of complete records,   *)
(* looking up q returns the first record in store order whose roll number  *)
(* equals q up to letter case (the record appended under that roll         *)
(* number), and reports not-found when no persisted roll number matches.   *)
(***************************************************************************)
C7_Case ==
    /\ IsFind
    /\ last.pre.store.kind = "list"
    /\ last.pre.canRead
    /\ \A i \in DOMAIN Items(last.pre.store) : DOMAIN Items(last.pre.store)[i] = FieldSet
    /\ Strip(last.q) # <<>>

C7_CaseInsensitiveLookup ==
    C7_Case =>
        LET items == Items(last.pre.store)
            matches == {i \in DOMAIN items : SameRoll(items[i]["roll_no"], Strip(last.q))}
        IN  /\ store = last.pre.store
            /\ matches = {} => (last.outcome = "not_found" /\ last.hit = <<>>)
            /\ matches # {} =>
                 /\ last.outcome = "found"
                 /\ \E i \in matches :
                        /\ \A j \in matches : i <= j
                        /\ last.hit = <<items[i]>>

C7_Witness ==
    /\ C7_Case
    /\ last.outcome = "found"
    /\ last.hit[1]["roll_no"] # Strip(last.q)
    /\ SameRoll(last.hit[1]["roll_no"], last.q)

(***************************************************************************)
(* C8  Idempotent initialization.  As stated: load on a store that does    *)
(* not exist returns the empty collection and leaves the store existing    *)
(* and holding the empty sequence; a second load right after it returns    *)
(* the empty collection too and changes nothing.                           *)
(***************************************************************************)
C8_SecondLoadSame ==
    /\ view_students(CurFS).ret = PyList(<<>>)
    /\ view_students(CurFS).fs = CurFS
    /\ read_student_file(CurFS).ret = PyList(<<>>)
    /\ read_student_file(CurFS).fs = CurFS

C8_IdempotentInit_AsStated ==
    (IsLoad /\ last.pre.store.kind = "absent")
        => /\ last.ret = PyList(<<>>)
           /\ store = EmptyFile
           /\ C8_SecondLoadSame

(***************************************************************************)
(* C8 as amended: load on a store that does not exist returns the empty    *)
(* collection; the store exists afterwards, holding the empty sequence,    *)
(* exactly when the file could be created, and otherwise still does not    *)
(* exist; a second load right after it returns the empty collection too    *)
(* and changes nothing.                                                    *)
(***************************************************************************)
C8_IdempotentInit ==
    (IsLoad /\ last.pre.store.kind = "absent")
        => /\ last.ret = PyList(<<>>)
           /\ last.outcome \in {"ok", "file_not_found"}
           /\ store = (IF last.pre.canWrite THEN EmptyFile ELSE Absent)
           /\ backup = last.pre.backup
           /\ C8_SecondLoadSame

C8_Witness ==
    /\ last.op = "view_students"
    /\ last.pre.store.kind = "absent"
    /\ last.pre.canWrite
    /\ store = EmptyFile

(***************************************************************************)
(* C9  Every persisted record has exactly the four fields, each non-empty  *)
(* after trimming: this is true of the store after any append on an        *)
(* absent or valid store.                                                  *)
(***************************************************************************)
C9_FieldsNonEmpty ==
    (IsAppend /\ ValidStore(last.pre.store) /\ Accessible(last.pre))
        => \A i \in DOMAIN Items(store) :
              /\ DOMAIN Items(store)[i] = FieldSet
              /\ \A k \in FieldSet : Strip(Items(store)[i][k]) # <<>>

(***************************************************************************)
(* C10  Permission denied on load: when the store exists and cannot be     *)
(* read, every copy of load hands the empty collection to its caller and   *)
(* raises nothing, so no request that loads ends in an unhandled fault.    *)
(***************************************************************************)
C10_PermissionDeniedLoad ==
    (last.pre.store.kind # "absent" /\ ~last.pre.canRead)
        => /\ IsLoad => (last.outcome \in {"ok", "permission_denied"}
                         /\ last.ret = PyList(<<>>))
           /\ last.op = "search_student" => last.outcome # "fault"

(***************************************************************************)
(* C11  Validation order: an append reports the first failing constraint   *)
(* in the order missing field, invalid email format, duplicate roll        *)
(* number.  A candidate with a field empty after trimming is reported as   *)
(* a missing field whatever its email and roll number; a candidate with an *)
(* email lacking '@' or '.' is reported as an invalid email even when its  *)
(* roll number collides; in both cases the store is not touched.           *)
(***************************************************************************)
MissingField(c) == \E k \in FieldSet : Strip(c[k]) = <<>>

\* The call answered its first round of prompts (no nested add_record()).
FirstRound == ~(last.op = "add_record" /\ last.pre.store.kind = "absent")

C11_ValidationOrder ==
    (IsAppend /\ FirstRound)
        => /\ MissingField(last.cand)
                => (last.outcome = "missing_field" /\ store = last.pre.store)
           /\ (~MissingField(last.cand) /\ ~EmailOk(Strip(last.cand["email"])))
                => (last.outcome = "invalid_email" /\ store = last.pre.store)
           /\ (~InvalidCand(last.cand) /\ ValidStore(last.pre.store)
                  /\ Accessible(last.pre)
                  /\ Collides([last.cand EXCEPT !["roll_no"] = Strip(@)],
                              Items(last.pre.store)))
                => last.outcome = "duplicate"

(***************************************************************************)
(* C15  add_record terminates: whatever is typed, the nested add_record()  *)
(* call after a missing file is at most one level deep, and a call that    *)
(* found the file missing returns with the record added or rejected.       *)
(***************************************************************************)
PromptSeqs ==
    { <<c>> \o t : c \in Candidates, t \in [1 .. MaxPrompts - 1 -> Retyped] }

AddedOrRejected == {"success", "missing_field", "invalid_email", "duplicate"}

\* The first answers pass validation, so the file is opened for reading.
ReachesRead(inputs) == add_record_try(CurFS, inputs[1]).outcome \notin
                           {"missing_field", "invalid_email"}

C15_AddRecordTerminates ==
    /\ \A inputs \in PromptSeqs : add_record(CurFS, inputs).depth <= 1
    /\ (last.op = "add_record" /\ last.pre.store.kind = "absent")
          => last.outcome \in AddedOrRejected

(***************************************************************************)
(* What add_record does in full: the nested call is at most one level deep *)
(* and every call ends within two rounds of prompts; a call that found the *)
(* file missing creates it, prompts again and ends with the record added   *)
(* or rejected when the file can be created; when it cannot, the error of  *)
(* initialize_file escapes add_record, nothing is created and there is no  *)
(* second round.                                                           *)
(***************************************************************************)
AddRecordBehaviour ==
    /\ (last.op = "add_record" /\ last.pre.store.kind = "absent")
          => \/ last.outcome \in AddedOrRejected
             \/ last.outcome = "fault" /\ ~last.pre.canWrite /\ store = last.pre.store
    /\ \A inputs \in PromptSeqs :
        LET r == add_record(CurFS, inputs)
        IN  /\ r.depth <= 1
            /\ r.outcome # "waiting"
            /\ r.depth = 1 => (store.kind = "absent" /\ canWrite)
            /\ (store.kind = "absent" /\ ReachesRead(inputs) /\ canWrite)
                  => /\ r.depth = 1
                     /\ r.outcome \in AddedOrRejected
                     /\ r.input = inputs[2]
                     /\ r.fs.store.kind = "list"
            /\ (store.kind = "absent" /\ ReachesRead(inputs) /\ ~canWrite)
                  => (r.depth = 0 /\ r.outcome = "fault" /\ r.fs = CurFS)

(***************************************************************************)
(* C12  No cached view: a lookup answers from the content the store has    *)
(* when it is called.  Of two lookups with the same argument, the second   *)
(* returns the first match in the content it finds, and when the file was  *)
(* changed in between so that this match differs, its result differs from  *)
(* the first lookup's.                                                     *)
(***************************************************************************)
\* A readable store holding a list of complete records.
Searchable(fs) ==
    /\ fs.store.kind = "list"
    /\ fs.canRead
    /\ \A i \in DOMAIN Items(fs.store) : DOMAIN Items(fs.store)[i] = FieldSet

\* The first record of the content whose roll number is q up to case.
FirstMatch(content, q) ==
    LET items == Items(content)
        matches == {i \in DOMAIN items : SameRoll(items[i]["roll_no"], q)}
    IN  IF matches = {} THEN <<>>
        ELSE <<items[CHOOSE i \in matches : \A j \in matches : i <= j]>>

C12_Case ==
    /\ IsFind
    /\ prev.op \in FindOps
    /\ prev.q = last.q
    /\ Strip(last.q) # <<>>
    /\ Searchable(last.pre)
    /\ Searchable(prev.pre)

C12_NoCachedView ==
    C12_Case =>
        /\ last.hit = FirstMatch(last.pre.store, Strip(last.q))
        /\ last.outcome = (IF last.hit = <<>> THEN "not_found" ELSE "found")
        /\ FirstMatch(last.pre.store, Strip(last.q)) # FirstMatch(prev.pre.store, Strip(prev.q))
              => last.hit # prev.hit

C12_Witness ==
    /\ C12_Case
    /\ last.pre.store # prev.pre.store
    /\ prev.hit = <<>>
    /\ last.hit # <<>>

(***************************************************************************)
(* C13  Lost update under concurrency: when two add_student requests with  *)
(* distinct valid roll numbers interleave, the file always holds the whole *)
(* list of one successful writer (the last write wins for the whole        *)
(* collection), and a state is reached where both requests reported        *)
(* success while the store holds only one of the two records.              *)
(***************************************************************************)
Succeeded(p) == procs[p].outcome = "success"

Persisted(p) ==
    \E i \in DOMAIN Items(store) : Items(store)[i] = Stripped(procs[p].form)

C13_LastWriteWins ==
    (\E p \in Reqs : Succeeded(p)) =>
        /\ \A p \in Reqs : Succeeded(p) =>
              /\ procs[p].students # <<>>
              /\ procs[p].students[Len(procs[p].students)] = Stripped(procs[p].form)
        /\ \E q \in Reqs : Succeeded(q) /\ store = JsonDump(PyList(procs[q].students))

C13_LostUpdate ==
    /\ Succeeded(1)
    /\ Succeeded(2)
    /\ ~SameRoll(procs[1].form.roll_no, procs[2].form.roll_no)
    /\ Len(store.objs) = 1
    /\ \E p \in Reqs : ~Persisted(p)

(***************************************************************************)
(* C14  As stated: even when two add_student requests carrying the same    *)
(* roll number interleave, at most one of them is persisted and reported   *)
(* as success, and the store never holds two records with the same roll    *)
(* number.                                                                 *)
(***************************************************************************)
SameRollRequests ==
    /\ procs[1].pc # "idle"
    /\ procs[2].pc # "idle"
    /\ SameRoll(Stripped(procs[1].form).roll_no, Stripped(procs[2].form).roll_no)

C14_AtMostOnePersisted_AsStated ==
    SameRollRequests =>
        /\ ~(Succeeded(1) /\ Succeeded(2))
        /\ UniqueCI(Items(store))

(***************************************************************************)
(* C14 as amended: a request gets past its duplicate check exactly when    *)
(* the collection that check read holds no record with its roll number.    *)
(* Of two requests carrying the same roll number, one whose check read the *)
(* store after the other's write is rejected as a duplicate, and then the  *)
(* store holds the roll number once; only when both checks ran before      *)
(* either write are both reported as success.                              *)
(***************************************************************************)
PastCheck(p) ==
    \/ procs[p].pc \in {"read", "write"}
    \/ procs[p].pc = "done" /\ procs[p].outcome \in {"success", "error"}

C14_CheckThenAct ==
    /\ \A p \in Reqs :
          /\ PastCheck(p) => ~Collides(Stripped(procs[p].form), procs[p].seen)
          /\ procs[p].outcome = "duplicate"
                => Collides(Stripped(procs[p].form), procs[p].seen)
    /\ SameRollRequests =>
          /\ (\E p \in Reqs : procs[p].outcome = "duplicate") => UniqueCI(Items(store))
          /\ (Succeeded(1) /\ Succeeded(2)) =>
                \A p \in Reqs : ~Collides(Stripped(procs[p].form), procs[p].seen)

C14_Witness ==
    /\ SameRollRequests
    /\ \E p, q \in Reqs :
          /\ procs[p].outcome = "duplicate"
          /\ Succeeded(q)
          /\ procs[p].seen # <<>>
          /\ Persisted(q)

====
